---------------------------- MODULE Spec2Model ----------------------------
(***************************************************************************)
(* The emotion-analysis pipeline of emotion_sns_demo.py: the RateLimiter,  *)
(* analyze_emotion_with_ai, the background loop process_emotion_queue, the *)
(* submission handler of main() and the sidebar handlers that touch the    *)
(* queue and the limiter.                                                  *)
(*                                                                         *)
(* st.session_state belongs to one browser session: every session has its  *)
(* own emotion_queue and its own processing flag, and the thread a session *)
(* starts works on that session's queue.  The posts table, the service     *)
(* client and rate_limiter are process-wide.                               *)
(*                                                                         *)
(* Time is counted in whole seconds.  An admission timestamp is kept as    *)
(* its age (now - req_time), so `requests` holds ages and Tick adds the    *)
(* elapsed seconds to every one of them.                                   *)
(***************************************************************************)
EXTENDS Integers, Sequences, FiniteSets, TLC

(***************************************************************************)
(* Program constants                                                       *)
(***************************************************************************)
max_requests == 15
time_window  == 60
SecondsPerDay == 86400
RetrySleep == 5
ErrorSleep == 1
ForceLimit == 5

(***************************************************************************)
(* Bounds of the model                                                     *)
(***************************************************************************)
MaxPosts == 2
MaxQueue == 1
MaxSessions == 2
MaxResp  == 3
MaxIdle  == 60
MaxDays  == 1

(* the clock steps: of the whole pipeline, and of the runs about the limiter *)
Deltas == {time_window}
LimiterDeltas == {30, time_window, SecondsPerDay}

Sessions == 1..MaxSessions

Keys == {"happiness", "excitement", "satisfaction", "concern"}

NULL == "NULL"

(***************************************************************************)
(* Python values of analyze_emotion_with_ai's first tuple component        *)
(***************************************************************************)
NoKeys == [k \in {} |-> 0]
None == [t |-> "None", d |-> NoKeys]
Dict(f) == [t |-> "dict", d |-> f]

(***************************************************************************)
(* The response text of the external service, as a sequence of tokens: an  *)
(* opening brace, a closing brace, the text of a complete four-field       *)
(* object body with values in range ("full") or out of range ("over"), of  *)
(* a body with only one of the four fields ("part"), and any other text.   *)
(***************************************************************************)
Tokens == {"{", "}", "full", "over", "part", "x"}

Texts == UNION {[1..n -> Tokens] : n \in 0..MaxResp}

Outcomes == {[kind |-> "text", text |-> t] : t \in Texts}
            \cup {[kind |-> "raise", text |-> <<>>]}

NoOutcome == [kind |-> "none", text |-> <<>>]

(* the outcomes drawn in the runs of the whole pipeline and of the limiter *)
Replies == {[kind |-> "text", text |-> t] :
               t \in {<<"x">>, <<"{", "full", "}">>, <<"{", "part", "}">>}}

OneReply == {[kind |-> "text", text |-> <<"{", "full", "}">>]}

Solo == {1}

BodyDict(tok) ==
    CASE tok = "full" -> [happiness |-> 8, excitement |-> 6, satisfaction |-> 9, concern |-> 2]
      [] tok = "over" -> [happiness |-> 11, excitement |-> 6, satisfaction |-> 9, concern |-> -1]
      [] tok = "part" -> [happiness |-> 8]

(***************************************************************************)
(* re.search(r'\{[^}]+\}', text): the leftmost opening brace that is       *)
(* followed by at least one non-"}" token and then a closing brace.        *)
(***************************************************************************)
Closes(t, i) == {j \in (i+1)..Len(t) : t[j] = "}"}

Min(S) == CHOOSE x \in S : \A y \in S : x <= y

FirstClose(t, i) == Min(Closes(t, i))

MatchStarts(t) ==
    {i \in 1..Len(t) : /\ t[i] = "{"
                       /\ Closes(t, i) # {}
                       /\ FirstClose(t, i) >= i + 2}

HasMatch(t) == MatchStarts(t) # {}

MatchBody(t) ==
    LET i == Min(MatchStarts(t))
    IN  SubSeq(t, i + 1, FirstClose(t, i) - 1)

(* json.loads of the matched fragment: a dict, or JSONDecodeError *)
JsonLoadsOk(body) == Len(body) = 1 /\ body[1] \in {"full", "over", "part"}

JsonLoads(body) == BodyDict(body[1])

(***************************************************************************)
(* RateLimiter                                                             *)
(***************************************************************************)
(* timedelta.seconds of a non-negative timedelta: the days are dropped *)
Seconds(age) == age % SecondsPerDay

InWindow(age) == Seconds(age) < time_window

Pruned(reqs) == SelectSeq(reqs, InWindow)

(* a capacity test that admits one request too many *)
CanRequestResultOffByOne(reqs) == Len(Pruned(reqs)) <= max_requests

(* a capacity test on the list as it was before the prune *)
CanRequestResultUnpruned(reqs) == Len(reqs) < max_requests

CanRequestResult(reqs) == Len(Pruned(reqs)) < max_requests

(* a can_request that records the time of every call, admitted or not *)
CanRequestStateRecordsAll(reqs) == Append(Pruned(reqs), 0)

CanRequestState(reqs) ==
    IF CanRequestResult(reqs) THEN Append(Pruned(reqs), 0) ELSE Pruned(reqs)

Max0(x) == IF x > 0 THEN x ELSE 0

(* a wait_time that measures from the newest admission, not the oldest *)
wait_timeOfNewest(reqs) ==
    IF reqs = <<>> THEN 0
    ELSE Max0(time_window - Seconds(reqs[Len(reqs)]))

wait_time(reqs) ==
    IF reqs = <<>> THEN 0
    ELSE Max0(time_window - Seconds(reqs[1]))

(***************************************************************************)
(* analyze_emotion_with_ai                                                 *)
(***************************************************************************)
Result(e, et, em) == [raised |-> FALSE, emotions |-> e, error_type |-> et, error_message |-> em]

Raised == [raised |-> TRUE, emotions |-> None, error_type |-> NULL, error_message |-> NULL]

NoResult == [raised |-> FALSE, emotions |-> None, error_type |-> "unset", error_message |-> NULL]

Neutral == [happiness |-> 5, excitement |-> 5, satisfaction |-> 5, concern |-> 5]

Estimate == [happiness |-> 6, excitement |-> 7, satisfaction |-> 5, concern |-> 3]

(* a fallback for the missing client that hands back no scores *)
NoClientResultWithoutScores == Result(None, "api_error", "api_unavailable")

NoClientResult == Result(Dict(Neutral), "api_error", "api_unavailable")

(* a rate-limit return that carries fallback scores instead of None *)
RateLimitResultWithScores == Result(Dict(Neutral), "rate_limit", "rate_limited")

RateLimitResult == Result(None, "rate_limit", "rate_limited")

ParseErrorResult == Result(Dict(Estimate), "parse_error", "parse_failed")

ApiErrorResult(e) == Result(Dict(Neutral), "api_error", e)

(* the body of the try block: a returned tuple, or the exception it raises *)
TryBody(out) ==
    IF out.kind = "raise" THEN [exc |-> "call_error", val |-> NoResult]
    ELSE IF HasMatch(out.text)
         THEN IF JsonLoadsOk(MatchBody(out.text))
              THEN [exc |-> NULL, val |-> Result(Dict(JsonLoads(MatchBody(out.text))), NULL, NULL)]
              ELSE [exc |-> "json_error", val |-> NoResult]
         ELSE [exc |-> NULL, val |-> ParseErrorResult]

(* an except clause that lets the exception through *)
HandlerReraise(exc) == Raised

(* the except clause *)
Handler(exc) == ApiErrorResult(exc)

(* the early returns in the other order: the limiter is asked first *)
GateLimiterFirst(cl, reqs) ==
    IF ~CanRequestResult(reqs) THEN "rate_limit"
    ELSE IF ~cl THEN "no_client"
    ELSE "call"

(* the two early returns of analyze_emotion_with_ai *)
Gate(cl, reqs) ==
    IF ~cl THEN "no_client"
    ELSE IF ~CanRequestResult(reqs) THEN "rate_limit"
    ELSE "call"

AnalyzeResponse(out) ==
    LET b == TryBody(out)
    IN  IF b.exc # NULL THEN Handler(b.exc) ELSE b.val

(***************************************************************************)
(* The Store                                                               *)
(***************************************************************************)
Contents == {"c1"}

Defaults == [happiness |-> 0, excitement |-> 0, satisfaction |-> 0, concern |-> 0]

(* the row of INSERT INTO posts (content, timestamp); the timestamp is kept
   as the ordinal of the insertion *)
NewRow(c, t) == [content |-> c, timestamp |-> t, scores |-> Defaults, processed |-> FALSE,
                 error_type |-> NULL, error_message |-> NULL]

(* an update that writes the scores and the flag but not the error columns *)
UpdateRowScoresOnly(row, r) == [row EXCEPT !.scores = [k \in Keys |-> r.emotions.d[k]],
                                           !.processed = TRUE]

(* an UPDATE whose SET list also rewrites the text and the time of the row *)
UpdateRowRewritesAll(row, r) == [row EXCEPT !.content = "",
                                            !.timestamp = 0,
                                            !.scores = [k \in Keys |-> r.emotions.d[k]],
                                            !.processed = TRUE,
                                            !.error_type = r.error_type,
                                            !.error_message = r.error_message]

UpdateRow(row, r) == [row EXCEPT !.scores = [k \in Keys |-> r.emotions.d[k]],
                                 !.processed = TRUE,
                                 !.error_type = r.error_type,
                                 !.error_message = r.error_message]

(* a SELECT without the condition on processed *)
AnyRow(ps) == 1..Len(ps)

(* the ids a SELECT ... WHERE processed = FALSE finds *)
Unprocessed(ps) == {i \in 1..Len(ps) : ~ps[i].processed}

(***************************************************************************)
(* shared_emotion_sns.py: the posts kept in one JSON file                  *)
(***************************************************************************)
MaxAdds == 2

(* the file is absent, holds a complete JSON list, or is cut short: opened
   for writing and not yet written, or left with the rest of a longer write *)
NoFile == [state |-> "absent", data |-> <<>>]

Truncated == [state |-> "partial", data |-> <<>>]

Complete(ps) == [state |-> "complete", data |-> ps]

(* load_shared_posts: the list it returns, and whether it went through its
   except clause; readable is whether open and read succeed *)
load_shared_posts(f, readable) ==
    IF f.state = "absent" THEN [posts |-> <<>>, failed |-> FALSE]
    ELSE IF readable /\ f.state = "complete" THEN [posts |-> f.data, failed |-> FALSE]
    ELSE [posts |-> <<>>, failed |-> TRUE]

(* the new_post of add_post: the k-th post of session s *)
new_post(s, k, ps) == [text |-> <<s, k>>, id |-> Len(ps) + 1]

NotAdding == [pc |-> "idle", posts |-> <<>>, failed |-> FALSE, n |-> 0]

VARIABLES
    requests,    \* RateLimiter.requests, as ages in seconds, oldest first
    admitted,    \* history: the ages below time_window of all admissions
    called,      \* history: those of the admissions the Workers got (line 197)
    polled,      \* history: those of the admissions the page got (355, 531, 748)
    limited,     \* history: the ids of the posts a Worker was turned away with
    posts,       \* the posts table; the row with id i is posts[i]
    client,      \* whether setup_genai() returned a client
    processing,  \* st.session_state.processing, per session
    queue,       \* st.session_state.emotion_queue, per session
    pc,          \* per session, its Worker's position in process_emotion_queue
    cur,         \* per session, its Worker's post_id (0: none)
    out,         \* per session, the outcome of its Worker's external call
    res,         \* per session, the tuple analyze_emotion_with_ai returned
    sleep_left,  \* per session, whole seconds left of its Worker's time.sleep
    DATA_FILE,   \* shared_emotion_sns.py: the file shared_posts.json
    last_saved,  \* history: the posts of the last complete write of the file
    returned,    \* history: the posts whose add_post returned True
    adding       \* per session, the add_post call of shared_emotion_sns.py

vars == <<requests, admitted, called, polled, limited, posts, client, processing, queue, pc, cur, out, res, sleep_left,
          DATA_FILE, last_saved, returned, adding>>

shared == <<DATA_FILE, last_saved, returned, adding>>

limiter == <<requests, admitted, called, polled, limited>>
worker == <<pc, cur, out, res, sleep_left>>

Init ==
    /\ requests = <<>>
    /\ admitted = <<>>
    /\ called = <<>>
    /\ polled = <<>>
    /\ limited = {}
    /\ posts = <<>>
    /\ client \in BOOLEAN
    /\ processing = [s \in Sessions |-> FALSE]
    /\ queue = [s \in Sessions |-> <<>>]
    /\ pc = [s \in Sessions |-> "off"]
    /\ cur = [s \in Sessions |-> 0]
    /\ out = [s \in Sessions |-> NoOutcome]
    /\ res = [s \in Sessions |-> NoResult]
    /\ sleep_left = [s \in Sessions |-> 0]
    /\ DATA_FILE = NoFile
    /\ last_saved = <<>>
    /\ returned = {}
    /\ adding = [s \in Sessions |-> NotAdding]

(* rate_limiter.can_request() by any caller, under RateLimiter.lock *)
CallCanRequest ==
    /\ requests' = CanRequestState(requests)
    /\ admitted' = IF CanRequestResult(requests) THEN Append(admitted, 0) ELSE admitted

(* a status display that asks the limiter without taking a slot *)
PageCanRequestPeek ==
    UNCHANGED limiter

(* can_request() of the page: lines 355, 531 and 748 *)
PageCanRequest ==
    /\ CallCanRequest
    /\ polled' = IF CanRequestResult(requests) THEN Append(polled, 0) ELSE polled
    /\ UNCHANGED <<called, limited>>

(* can_request() of analyze_emotion_with_ai, for the post the Worker of s
   holds: line 197 *)
WorkerCanRequest(s) ==
    /\ CallCanRequest
    /\ called' = IF CanRequestResult(requests) THEN Append(called, 0) ELSE called
    /\ limited' = IF CanRequestResult(requests) THEN limited ELSE limited \cup {cur[s]}
    /\ UNCHANGED polled

(***************************************************************************)
(* The page script of session s                                            *)
(***************************************************************************)
(* the first run of the script in a session: it starts the session's thread *)
StartWorker(s) ==
    /\ ~processing[s]
    /\ processing' = [processing EXCEPT ![s] = TRUE]
    /\ pc' = [pc EXCEPT ![s] = "loop"]
    /\ UNCHANGED <<limiter, posts, client, shared, queue, cur, out, res, sleep_left>>

(* the submission handler: INSERT, commit, put, can_request *)
SubmitPost(s, c) ==
    /\ processing[s]
    /\ Len(posts) < MaxPosts
    /\ Len(queue[s]) < MaxQueue
    /\ posts' = Append(posts, NewRow(c, Len(posts) + 1))
    /\ queue' = [queue EXCEPT ![s] = Append(@, Len(posts) + 1)]
    /\ PageCanRequest
    /\ UNCHANGED <<client, shared, processing, worker>>

(* the can_request of the sidebar and of every unprocessed post shown *)
PollLimiter(s) ==
    /\ processing[s]
    /\ PageCanRequest
    /\ UNCHANGED <<posts, client, shared, processing, queue, worker>>

RECURSIVE Descending(_)
Descending(S) ==
    IF S = {} THEN <<>>
    ELSE LET m == CHOOSE x \in S : \A y \in S : y <= x
         IN  <<m>> \o Descending(S \ {m})

(* SELECT id ... WHERE processed = FALSE ORDER BY id DESC LIMIT 5 *)
ForceSelected(ps) ==
    LET d == Descending(Unprocessed(ps))
    IN  SubSeq(d, 1, IF Len(d) < ForceLimit THEN Len(d) ELSE ForceLimit)

(* the "force_process" button of add_debug_controls *)
ForceProcess(s) ==
    /\ processing[s]
    /\ ForceSelected(posts) # <<>>
    /\ Len(queue[s]) + Len(ForceSelected(posts)) <= MaxQueue
    /\ queue' = [queue EXCEPT ![s] = @ \o ForceSelected(posts)]
    /\ UNCHANGED <<limiter, posts, client, shared, processing, worker>>

(***************************************************************************)
(* process_emotion_queue, the thread of session s                          *)
(***************************************************************************)
(* a loop without its except clause: the exception ends the thread *)
ThreadDies(s, n) ==
    /\ pc' = [pc EXCEPT ![s] = "off"]
    /\ sleep_left' = [sleep_left EXCEPT ![s] = 0]
    /\ cur' = [cur EXCEPT ![s] = 0]
    /\ out' = [out EXCEPT ![s] = NoOutcome]
    /\ res' = [res EXCEPT ![s] = NoResult]

(* the pauses of the loop: time.sleep(5) after a re-queue, and the except
   clause's time.sleep(1) *)
Sleep(s, n) ==
    /\ pc' = [pc EXCEPT ![s] = "sleep"]
    /\ sleep_left' = [sleep_left EXCEPT ![s] = n]
    /\ cur' = [cur EXCEPT ![s] = 0]
    /\ out' = [out EXCEPT ![s] = NoOutcome]
    /\ res' = [res EXCEPT ![s] = NoResult]

(* time.sleep(0.5), which takes no whole second, and the next iteration *)
NextIteration(s) ==
    /\ pc' = [pc EXCEPT ![s] = "loop"]
    /\ sleep_left' = [sleep_left EXCEPT ![s] = 0]
    /\ cur' = [cur EXCEPT ![s] = 0]
    /\ out' = [out EXCEPT ![s] = NoOutcome]
    /\ res' = [res EXCEPT ![s] = NoResult]

(* queue.get and the SELECT ... WHERE id = ? AND processed = FALSE *)
WorkerPop(s) ==
    /\ pc[s] = "loop"
    /\ queue[s] # <<>>
    /\ queue' = [queue EXCEPT ![s] = Tail(@)]
    /\ IF Head(queue[s]) \in Unprocessed(posts)
       THEN /\ pc' = [pc EXCEPT ![s] = "fetched"]
            /\ cur' = [cur EXCEPT ![s] = Head(queue[s])]
            /\ UNCHANGED <<out, res, sleep_left>>
       ELSE NextIteration(s)
    /\ UNCHANGED <<limiter, posts, client, shared, processing>>

(* analyze_emotion_with_ai up to the external call *)
WorkerAnalyze(s) ==
    /\ pc[s] = "fetched"
    /\ IF Gate(client, requests) = "no_client"
       THEN /\ res' = [res EXCEPT ![s] = NoClientResult]
            /\ pc' = [pc EXCEPT ![s] = "analyzed"]
            /\ UNCHANGED limiter
       ELSE /\ WorkerCanRequest(s)
            /\ IF Gate(client, requests) = "call"
               THEN /\ pc' = [pc EXCEPT ![s] = "calling"]
                    /\ UNCHANGED res
               ELSE /\ res' = [res EXCEPT ![s] = RateLimitResult]
                    /\ pc' = [pc EXCEPT ![s] = "analyzed"]
    /\ UNCHANGED <<posts, client, shared, processing, queue, cur, out, sleep_left>>

(* generate_content returns or raises; the rest of analyze_emotion_with_ai *)
WorkerRespond(s, o) ==
    /\ pc[s] = "calling"
    /\ out' = [out EXCEPT ![s] = o]
    /\ res' = [res EXCEPT ![s] = AnalyzeResponse(o)]
    /\ pc' = [pc EXCEPT ![s] = "analyzed"]
    /\ UNCHANGED <<limiter, posts, client, shared, processing, queue, cur, sleep_left>>

(* a rate-limited branch that forgets the put *)
RequeueDropped(q, id) == q

(* a rate-limited branch that puts the identifier back twice *)
RequeueTwice(q, id) == Append(Append(q, id), id)

(* emotion_queue.put(post_id) of the rate-limited branch *)
Requeue(q, id) == Append(q, id)

(* the rest of the loop body, with the loop's except clause *)
WorkerStore(s) ==
    /\ pc[s] = "analyzed"
    /\ IF res[s].raised
       THEN /\ Sleep(s, ErrorSleep)
            /\ UNCHANGED <<posts, queue>>
       ELSE IF res[s].emotions = None
       THEN /\ queue' = [queue EXCEPT ![s] = Requeue(@, cur[s])]
            /\ Sleep(s, RetrySleep)
            /\ UNCHANGED posts
       ELSE IF Keys \subseteq DOMAIN res[s].emotions.d
       THEN /\ posts' = [posts EXCEPT ![cur[s]] = UpdateRow(@, res[s])]
            /\ NextIteration(s)
            /\ UNCHANGED queue
       ELSE /\ Sleep(s, ErrorSleep)
            /\ UNCHANGED <<posts, queue>>
    /\ UNCHANGED <<limiter, client, shared, processing>>

(* a pause that can be cut short: the thread goes on before the time is up *)
WorkerWakeEarly(s) ==
    /\ pc[s] = "sleep"
    /\ NextIteration(s)
    /\ UNCHANGED <<limiter, posts, client, shared, processing, queue>>

WorkerWake(s) ==
    /\ pc[s] = "sleep"
    /\ sleep_left[s] = 0
    /\ NextIteration(s)
    /\ UNCHANGED <<limiter, posts, client, shared, processing, queue>>

(***************************************************************************)
(* add_post of shared_emotion_sns.py, called by the page of session s      *)
(***************************************************************************)
pipeline == <<limiter, posts, client, processing, queue, worker>>

(* posts = load_shared_posts(); posts.append(new_post) *)
AddLoad(s, readable) ==
    /\ adding[s].pc = "idle"
    /\ adding[s].n < MaxAdds
    /\ LET l == load_shared_posts(DATA_FILE, readable)
       IN  adding' = [adding EXCEPT ![s] =
                         [pc |-> "loaded",
                          posts |-> Append(l.posts, new_post(s, adding[s].n + 1, l.posts)),
                          failed |-> l.failed,
                          n |-> adding[s].n + 1]]
    /\ UNCHANGED <<DATA_FILE, last_saved, returned, pipeline>>

(* save_shared_posts: open(DATA_FILE, 'w') empties the file *)
AddOpen(s) ==
    /\ adding[s].pc = "loaded"
    /\ DATA_FILE' = Truncated
    /\ adding' = [adding EXCEPT ![s].pc = "open"]
    /\ UNCHANGED <<last_saved, returned, pipeline>>

(* save_shared_posts: open raises, the except clause returns False *)
AddFail(s) ==
    /\ adding[s].pc = "loaded"
    /\ adding' = [adding EXCEPT ![s] = [NotAdding EXCEPT !.n = adding[s].n]]
    /\ UNCHANGED <<DATA_FILE, last_saved, returned, pipeline>>

(* save_shared_posts: json.dump and close write the list at the start of the
   file and return True.  When another session has written the file since
   this one opened it, the file holds this list, or this list followed by
   the rest of a longer one, which is no JSON *)
AddWrite(s, whole) ==
    /\ adding[s].pc = "open"
    /\ whole \/ DATA_FILE.state = "complete"
    /\ DATA_FILE' = IF whole THEN Complete(adding[s].posts) ELSE Truncated
    /\ last_saved' = IF whole THEN adding[s].posts ELSE last_saved
    /\ returned' = returned \cup {adding[s].posts[Len(adding[s].posts)].text}
    /\ adding' = [adding EXCEPT ![s] = [NotAdding EXCEPT !.n = adding[s].n]]
    /\ UNCHANGED pipeline

NextShared ==
    \/ \E s \in Sessions, readable \in BOOLEAN : AddLoad(s, readable)
    \/ \E s \in Sessions : AddOpen(s)
    \/ \E s \in Sessions : AddFail(s)
    \/ \E s \in Sessions, whole \in BOOLEAN : AddWrite(s, whole)

SharedSpec == Init /\ [][NextShared]_vars

(***************************************************************************)
(* The clock                                                               *)
(***************************************************************************)
Allowed(age) == age \div SecondsPerDay <= MaxDays /\ age % SecondsPerDay <= MaxIdle

Aged(reqs, d) == [i \in 1..Len(reqs) |-> reqs[i] + d]

Recent(age) == age < time_window

Tick(d) ==
    /\ \A i \in 1..Len(requests) : Allowed(requests[i] + d)
    /\ requests' = Aged(requests, d)
    /\ admitted' = SelectSeq(Aged(admitted, d), Recent)
    /\ called' = SelectSeq(Aged(called, d), Recent)
    /\ polled' = SelectSeq(Aged(polled, d), Recent)
    /\ sleep_left' = [s \in Sessions |-> Max0(sleep_left[s] - d)]
    /\ UNCHANGED <<limited, posts, client, shared, processing, queue, pc, cur, out, res>>

Next ==
    \/ \E s \in Sessions : StartWorker(s)
    \/ \E s \in Sessions, c \in Contents : SubmitPost(s, c)
    \/ \E s \in Sessions : PollLimiter(s)
    \/ \E s \in Sessions : ForceProcess(s)
    \/ \E s \in Sessions : WorkerPop(s)
    \/ \E s \in Sessions : WorkerAnalyze(s)
    \/ \E s \in Sessions, o \in Replies : WorkerRespond(s, o)
    \/ \E s \in Sessions : WorkerStore(s)
    \/ \E s \in Sessions : WorkerWake(s)
    \/ \E d \in Deltas : Tick(d)

Spec == Init /\ [][Next]_vars

(***************************************************************************)
(* One session, one kind of reply and a finer clock: the runs about the    *)
(* limiter.                                                                *)
(***************************************************************************)
NextLimiter ==
    \/ \E s \in Solo : StartWorker(s)
    \/ \E s \in Solo, c \in Contents : SubmitPost(s, c)
    \/ \E s \in Solo : PollLimiter(s)
    \/ \E s \in Solo : WorkerPop(s)
    \/ \E s \in Solo : WorkerAnalyze(s)
    \/ \E s \in Solo, o \in OneReply : WorkerRespond(s, o)
    \/ \E s \in Solo : WorkerStore(s)
    \/ \E s \in Solo : WorkerWake(s)
    \/ \E d \in LimiterDeltas : Tick(d)

LimiterSpec == Init /\ [][NextLimiter]_vars

(***************************************************************************)
(* One session and every outcome of the external call: the runs about      *)
(* analyze_emotion_with_ai.                                                *)
(***************************************************************************)
NextScorer ==
    \/ \E s \in Solo : StartWorker(s)
    \/ \E s \in Solo, c \in Contents : SubmitPost(s, c)
    \/ \E s \in Solo : WorkerPop(s)
    \/ \E s \in Solo : WorkerAnalyze(s)
    \/ \E s \in Solo, o \in Outcomes : WorkerRespond(s, o)
    \/ \E s \in Solo : WorkerStore(s)
    \/ \E s \in Solo : WorkerWake(s)
    \/ \E d \in Deltas : Tick(d)

ScorerSpec == Init /\ [][NextScorer]_vars

(***************************************************************************)
(* The pipeline with its scheduling: a started thread keeps running, the   *)
(* clock keeps advancing, and an open page reruns itself every 5 seconds   *)
(* (time.sleep(5); st.rerun() at the end of main), so the limiter keeps    *)
(* being polled.                                                           *)
(***************************************************************************)
Fairness ==
    /\ \A s \in Sessions : WF_vars(WorkerPop(s))
    /\ \A s \in Sessions : WF_vars(WorkerAnalyze(s))
    /\ \A s \in Sessions : WF_vars(\E o \in Replies : WorkerRespond(s, o))
    /\ \A s \in Sessions : WF_vars(WorkerStore(s))
    /\ \A s \in Sessions : WF_vars(WorkerWake(s))
    /\ \A s \in Sessions : WF_vars(PollLimiter(s))
    /\ WF_vars(\E d \in Deltas : Tick(d))

FairSpec == Init /\ [][Next]_vars /\ Fairness

(***************************************************************************)
(* One session with its scheduling: the runs about the Worker's loop.      *)
(***************************************************************************)
NextSolo ==
    \/ \E s \in Solo : StartWorker(s)
    \/ \E s \in Solo, c \in Contents : SubmitPost(s, c)
    \/ \E s \in Solo : PollLimiter(s)
    \/ \E s \in Solo : ForceProcess(s)
    \/ \E s \in Solo : WorkerPop(s)
    \/ \E s \in Solo : WorkerAnalyze(s)
    \/ \E s \in Solo, o \in Replies : WorkerRespond(s, o)
    \/ \E s \in Solo : WorkerStore(s)
    \/ \E s \in Solo : WorkerWake(s)
    \/ \E d \in Deltas : Tick(d)

FairSoloSpec == Init /\ [][NextSolo]_vars /\ Fairness

(***************************************************************************)
(* Every session, without the button of add_debug_controls (main never     *)
(* calls it) and with one kind of reply: the runs about the order in which *)
(* posts are completed.                                                    *)
(***************************************************************************)
NextPages ==
    \/ \E s \in Sessions : StartWorker(s)
    \/ \E s \in Sessions, c \in Contents : SubmitPost(s, c)
    \/ \E s \in Sessions : PollLimiter(s)
    \/ \E s \in Sessions : WorkerPop(s)
    \/ \E s \in Sessions : WorkerAnalyze(s)
    \/ \E s \in Sessions, o \in OneReply : WorkerRespond(s, o)
    \/ \E s \in Sessions : WorkerStore(s)
    \/ \E s \in Sessions : WorkerWake(s)
    \/ \E d \in Deltas : Tick(d)

PagesSpec == Init /\ [][NextPages]_vars

(***************************************************************************)
(* One session and a clock that is also read in the middle of a pause of   *)
(* the Worker: the runs about time.sleep(5) and time.sleep(1).  The short  *)
(* step is taken only while a Worker pauses.                               *)
(***************************************************************************)
ShortStep == 3

PauseDeltas == {ShortStep, time_window - ShortStep}

PauseTick(d) ==
    /\ d = ShortStep => \E s \in Solo : sleep_left[s] > 0
    /\ Tick(d)

NextPause ==
    \/ \E s \in Solo : StartWorker(s)
    \/ \E s \in Solo, c \in Contents : SubmitPost(s, c)
    \/ \E s \in Solo : PollLimiter(s)
    \/ \E s \in Solo : WorkerPop(s)
    \/ \E s \in Solo : WorkerAnalyze(s)
    \/ \E s \in Solo, o \in Replies : WorkerRespond(s, o)
    \/ \E s \in Solo : WorkerStore(s)
    \/ \E s \in Solo : WorkerWake(s)
    \/ \E d \in PauseDeltas : PauseTick(d)

PauseSpec == Init /\ [][NextPause]_vars

(***************************************************************************)
(* Properties                                                              *)
(***************************************************************************)
Range(q) == {q[i] : i \in 1..Len(q)}

Held(i) == \E s \in Sessions : cur[s] = i

Queued(i) == \E s \in Sessions : i \in Range(queue[s])

(* C1: at most max_requests of the can_request() calls that returned true,
   whoever made them, have their admission time in the trailing time_window
   seconds. *)
C1_AtMostMaxRequestsPerWindow == Len(admitted) <= max_requests

(* the window is full with admissions of two instants and the Worker was
   turned away *)
C1_Witness ==
    /\ Len(admitted) = max_requests
    /\ admitted[1] # admitted[Len(admitted)]
    /\ \E s \in Sessions : pc[s] = "analyzed" /\ res[s] = RateLimitResult

(* C2: every submitted post is eventually processed. *)
C2_EveryPostEventuallyProcessed ==
    \A i \in 1..MaxPosts :
        (Len(posts) >= i) ~> (Len(posts) >= i /\ posts[i].processed)

(* C3: every post that is not processed has its identifier in a queue or in
   the hands of a Worker. *)
C3_NoLostIdentifier ==
    \A i \in 1..Len(posts) : ~posts[i].processed => Queued(i) \/ Held(i)

(* the tuples the return statements of analyze_emotion_with_ai can hand to
   the UPDATE: the three fallbacks and a parsed object with all four keys *)
TerminalResults ==
    {NoClientResult, ParseErrorResult, ApiErrorResult("call_error"), ApiErrorResult("json_error")}
    \cup {Result(Dict(BodyDict(tok)), NULL, NULL) : tok \in {"full", "over"}}

Unanalyzed(row) ==
    /\ ~row.processed
    /\ row.scores = Defaults
    /\ row.error_type = NULL
    /\ row.error_message = NULL

Analyzed(row) ==
    /\ row.processed
    /\ \E r \in TerminalResults :
          /\ row.scores = [k \in Keys |-> r.emotions.d[k]]
          /\ row.error_type = r.error_type
          /\ row.error_message = r.error_message

(* C5: every row is either unanalyzed, with the defaults of the schema, or
   analyzed, with scores, error_type and error_message of one and the same
   result of the Scorer. *)
C5_RowsWholeOrUntouched ==
    \A i \in 1..Len(posts) : Unanalyzed(posts[i]) \/ Analyzed(posts[i])

(* a row written from an estimate and a row still unanalyzed, side by side *)
C5_Witness ==
    \E i, j \in 1..Len(posts) :
        /\ Analyzed(posts[i]) /\ posts[i].error_type = "parse_error"
        /\ Unanalyzed(posts[j])
        /\ Held(j)

Stepped(s) == pc'[s] # pc[s]

(* C6: a Worker that holds the rate-limit signal changes no row, puts its
   identifier back on its queue once and pauses; it pops nothing in that
   step. *)
C6_RateLimitedIsRequeuedOnce ==
    [][\A s \in Sessions :
          (pc[s] = "analyzed" /\ res[s].error_type = "rate_limit" /\ Stepped(s))
          => /\ posts' = posts
             /\ queue'[s] = Append(queue[s], cur[s])
             /\ pc'[s] = "sleep"
             /\ sleep_left'[s] = RetrySleep]_vars

(* a Worker pausing after the re-queue, the row still unanalyzed *)
C6_Witness ==
    \E s \in Sessions :
        /\ pc[s] = "sleep"
        /\ sleep_left[s] = RetrySleep
        /\ queue[s] # <<>>
        /\ Unanalyzed(posts[queue[s][Len(queue[s])]])

(* the response holds no brace-delimited object, or one that json.loads
   rejects *)
NoParseableJson(t) == ~HasMatch(t) \/ ~JsonLoadsOk(MatchBody(t))

(* C7: an admitted analysis whose response holds no parseable JSON object is
   stored as processed, parse_error, with the scores (6, 7, 5, 3). *)
C7_UnparseableStoredAsParseError ==
    [][\A s \in Sessions :
          (/\ pc[s] = "analyzed"
           /\ out[s].kind = "text"
           /\ NoParseableJson(out[s].text)
           /\ Stepped(s))
          => /\ posts'[cur[s]].processed
             /\ posts'[cur[s]].error_type = "parse_error"
             /\ posts'[cur[s]].scores = Estimate]_vars

(* C8: without a client every analysis returns the all-5 fallback tagged
   api_error whatever the limiter holds, no external call is made, and the
   Worker stores the row without re-queueing. *)
C8_NoClientAlwaysFallback ==
    /\ [](~client =>
            \A s \in Sessions :
                /\ pc[s] # "calling"
                /\ pc[s] = "analyzed" =>
                      /\ res[s].emotions = Dict(Neutral)
                      /\ res[s].error_type = "api_error")
    /\ [][~client =>
            \A s \in Sessions :
                (pc[s] = "analyzed" /\ Stepped(s))
                => /\ posts'[cur[s]].processed
                   /\ posts'[cur[s]].scores = Neutral
                   /\ posts'[cur[s]].error_type = "api_error"
                   /\ queue'[s] = queue[s]]_vars

(* the limiter at full capacity, one row stored from the fallback and the
   next fallback in a Worker's hands *)
C8_Witness ==
    /\ ~client
    /\ Len(admitted) = max_requests
    /\ \E s \in Sessions : pc[s] = "analyzed" /\ res[s] = NoClientResult
    /\ \E i \in 1..Len(posts) :
          /\ posts[i].processed
          /\ posts[i].scores = Neutral
          /\ posts[i].error_type = "api_error"

(* C9: analyze_emotion_with_ai hands its caller a tuple for every outcome of
   the external call, and the all-5 fallback tagged api_error when the call
   raised. *)
C9_AnalyzeNeverRaises ==
    \A s \in Sessions :
        pc[s] = "analyzed" =>
            /\ ~res[s].raised
            /\ res[s].error_type \in {NULL, "parse_error", "api_error", "rate_limit"}
            /\ out[s].kind = "raise" =>
                  /\ res[s].emotions = Dict(Neutral)
                  /\ res[s].error_type = "api_error"

(* the tuple of a call that raised is in the Worker's hands *)
C9_Witness ==
    \E s \in Sessions : pc[s] = "analyzed" /\ out[s].kind = "raise"

Popped(s) == Len(queue'[s]) < Len(queue[s])

(* C10: a pop of an identifier whose row is already processed changes no
   row, asks neither the limiter nor the service, puts nothing back and
   leaves the Worker at the head of its loop. *)
C10_ProcessedIdIsDropped ==
    [][\A s \in Sessions :
          (/\ pc[s] = "loop"
           /\ queue[s] # <<>>
           /\ posts[Head(queue[s])].processed
           /\ Popped(s))
          => /\ posts' = posts
             /\ requests' = requests
             /\ admitted' = admitted
             /\ queue'[s] = Tail(queue[s])
             /\ pc'[s] = "loop"
             /\ cur'[s] = 0
             /\ out'[s] = NoOutcome
             /\ res'[s] = NoResult]_vars

(* an idle Worker whose next identifier belongs to a processed row *)
C10_Witness ==
    \E s \in Sessions :
        /\ pc[s] = "loop"
        /\ queue[s] # <<>>
        /\ posts[Head(queue[s])].processed

(* the limiter has spare capacity: fewer than max_requests admissions lie in
   the trailing time_window seconds *)
SpareCapacity == Len(admitted) < max_requests

AtCapacity == Len(admitted) = max_requests

(* C11: wait_time() returns 0 in every limiter state with spare capacity,
   also when the list of recorded admissions is not empty. *)
C11_WaitTimeZeroWithSpareCapacity ==
    SpareCapacity => wait_time(requests) = 0

(* C12: at capacity wait_time() is time_window minus the seconds elapsed
   since the oldest recorded admission, and in every state its value lies
   in [0, time_window]. *)
C12_WaitTimeUntilOldestExpires ==
    /\ wait_time(requests) \in 0..time_window
    /\ AtCapacity => /\ requests # <<>>
                     /\ \A i \in 1..Len(requests) : requests[i] <= requests[1]
                     /\ wait_time(requests) = time_window - requests[1]

(* the window is full with admissions of two instants, the oldest made 30
   seconds ago, and a page is open whose can_request() is turned away and
   whose wait_time() is shown *)
C12_Witness ==
    /\ AtCapacity
    /\ ~CanRequestResult(requests)
    /\ requests[1] = 30
    /\ requests[Len(requests)] = 0
    /\ \E s \in Sessions : processing[s]

(* the Worker of s asks the limiter in this step *)
WorkerAsks(s) == pc[s] = "fetched" /\ client /\ Stepped(s)

(* the submission handler asks the limiter in this step *)
SubmissionAsks == Len(posts') > Len(posts)

(* C13: a can_request() that returns false, asked by the Worker or by the
   submission handler, leaves the list of recorded admissions as it was. *)
C13_RejectionHasNoSideEffect ==
    [][/\ \A s \in Sessions :
             (WorkerAsks(s) /\ res'[s] = RateLimitResult) => requests' = requests
       /\ (SubmissionAsks /\ ~CanRequestResult(requests)) => requests' = requests]_vars

(* the Worker was turned away by a limiter whose list holds admissions of
   two instants *)
C13_Witness ==
    /\ \E s \in Sessions : pc[s] = "analyzed" /\ res[s] = RateLimitResult
    /\ Len(requests) = max_requests
    /\ requests[1] = 30

(* C14: the Worker's can_request() returns true exactly when fewer than
   max_requests admissions were recorded in the trailing time_window
   seconds, whatever the idle gap before the call. *)
C14_AdmitsIffSpareCapacity ==
    [][\A s \in Sessions :
          WorkerAsks(s) => (pc'[s] = "calling" <=> SpareCapacity)]_vars

(* C15: every stored error_type is null, parse_error or api_error, never
   rate_limit, and it is non-null only on rows with processed = TRUE. *)
C15_StoredErrorTypes ==
    \A i \in 1..Len(posts) :
        /\ posts[i].error_type \in {NULL, "parse_error", "api_error"}
        /\ posts[i].error_type # NULL => posts[i].processed

(* a Worker went through a rate-limited attempt on a row and pauses, the
   row's error_type still null, next to a row stored with parse_error *)
C15_Witness ==
    \E s \in Sessions, i, j \in 1..Len(posts) :
        /\ pc[s] = "sleep" /\ sleep_left[s] = RetrySleep
        /\ i \in Range(queue[s])
        /\ ~posts[i].processed /\ posts[i].error_type = NULL
        /\ posts[j].processed /\ posts[j].error_type = "parse_error"

(* C16: each of the four stored scores of every post lies in [0, 10],
   whatever numbers the service puts in its JSON object. *)
C16_StoredScoresInRange ==
    \A i \in 1..Len(posts) : \A k \in Keys : posts[i].scores[k] \in 0..10

(* the sessions whose thread runs process_emotion_queue *)
Workers == {s \in Sessions : pc[s] # "off"}

(* the sessions whose Worker holds a popped identifier *)
InFlight == {s \in Sessions : cur[s] # 0}

(* the sessions whose Worker waits for generate_content *)
Outstanding == {s \in Sessions : pc[s] = "calling"}

(* C18: at most one Worker loop is ever started, however many sessions are
   open; at most one identifier is in flight and at most one external call
   is outstanding. *)
C18_SingleWorker ==
    /\ Cardinality(Workers) <= 1
    /\ Cardinality(InFlight) <= 1
    /\ Cardinality(Outstanding) <= 1

(* the Worker of s pauses in the except clause of its loop *)
InExcept(s) == pc[s] = "sleep" /\ sleep_left[s] = ErrorSleep

(* the Worker of s is between two iterations *)
BetweenIterations(s) == pc[s] \in {"loop", "sleep"}

(* C17: the thread of a started Worker never ends; after an exception in an
   iteration the Worker is back at the head of its loop, and a Worker
   between iterations whose queue holds identifiers pops again. *)
C17_WorkerSurvivesErrors ==
    /\ [](\A s \in Sessions : processing[s] => pc[s] # "off")
    /\ \A s \in Sessions : InExcept(s) ~> (pc[s] = "loop")
    /\ \A s \in Sessions :
          (BetweenIterations(s) /\ queue[s] # <<>>) ~> (cur[s] # 0 \/ queue[s] = <<>>)

(* a Worker in its except clause after a KeyError, with the next identifier
   waiting in its queue *)
C17_Witness ==
    \E s \in Sessions :
        /\ InExcept(s)
        /\ queue[s] # <<>>
        /\ \E i \in 1..Len(posts) : ~posts[i].processed /\ ~Queued(i) /\ ~Held(i)

(* the page gets an admission in this step *)
PageAdmitted == Len(polled') > Len(polled)

(* C19: a can_request() of the page that returns true records an admission
   as the Worker's does, so the external calls in the trailing time_window
   number at most max_requests minus the page's admissions in it. *)
C19_PageAdmissionsTakeSlots ==
    /\ [](Len(called) <= max_requests - Len(polled))
    /\ [][/\ (SubmissionAsks /\ CanRequestResult(requests))
                => requests' = Append(Pruned(requests), 0)
          /\ PageAdmitted => requests' = Append(Pruned(requests), 0)
          /\ \A s \in Sessions :
                (WorkerAsks(s) /\ pc'[s] = "calling")
                => requests' = Append(Pruned(requests), 0)]_vars

(* the Worker is turned away after one external call in the window: the
   other fourteen slots went to the page *)
C19_Witness ==
    /\ \E s \in Sessions : pc[s] = "analyzed" /\ res[s] = RateLimitResult
    /\ Len(called) = 1
    /\ Len(polled) = max_requests - 1

(* C20: a post submitted later becomes processed before a post submitted
   earlier only if the earlier post had a rate-limited attempt. *)
C20_OvertakingOnlyAfterRateLimit ==
    [][\A i, j \in 1..Len(posts) :
          (/\ i < j
           /\ posts[j].processed
           /\ ~posts[i].processed
           /\ posts'[i].processed)
          => i \in limited]_vars

(* the Worker of s is in a pause whose time is not up *)
Pausing(s) == pc[s] = "sleep" /\ sleep_left[s] > 0

(* no other Worker is about to store *)
OthersIdle(s) == \A t \in Sessions \ {s} : pc[t] # "analyzed"

(* C21: while the 5-second pause after a rate-limited attempt, or the
   1-second pause after a caught exception, is not over, the Worker stays
   in it: it pops nothing from its queue and writes no row, whatever waits
   in the queue and whatever the limiter would answer. *)
C21_NothingDrainedDuringPause ==
    [][\A s \in Sessions :
          Pausing(s)
          => /\ pc'[s] = "sleep"
             /\ cur'[s] = 0
             /\ Len(queue'[s]) >= Len(queue[s])
             /\ SubSeq(queue'[s], 1, Len(queue[s])) = queue[s]
             /\ OthersIdle(s) => \A i \in 1..Len(posts) : posts'[i] = posts[i]]_vars

(* three of the five seconds after a rate-limited attempt are over, the
   limiter has capacity again, and another identifier waits in front of the
   re-queued one *)
C21_Witness ==
    \E s \in Sessions :
        /\ Pausing(s)
        /\ sleep_left[s] = RetrySleep - ShortStep
        /\ CanRequestResult(requests)
        /\ Len(queue[s]) >= 2
        /\ queue[s][Len(queue[s])] \in limited

(* the Worker of s executes its UPDATE in this step *)
WorkerWrites(s) == pc[s] = "analyzed" /\ Stepped(s) /\ posts' # posts

(* C22: the Worker's write for identifier i changes nothing but the scores,
   processed, error_type and error_message of row i; content and timestamp
   of every row stay as inserted; a submission adds one row, unprocessed
   and with the next identifier, and changes no existing row. *)
C22_WritesOnlyResultColumns ==
    [][/\ \A i \in 1..Len(posts) :
             /\ Len(posts') >= i
             /\ posts'[i].content = posts[i].content
             /\ posts'[i].timestamp = posts[i].timestamp
       /\ \A s \in Sessions :
             WorkerWrites(s)
             => /\ Len(posts') = Len(posts)
                /\ \A i \in 1..Len(posts) : i # cur[s] => posts'[i] = posts[i]
       /\ SubmissionAsks
             => /\ Len(posts') = Len(posts) + 1
                /\ \A i \in 1..Len(posts) : posts'[i] = posts[i]
                /\ Unanalyzed(posts'[Len(posts')])
                /\ posts'[Len(posts')].content \in Contents
                /\ \A i \in 1..Len(posts) :
                      posts[i].timestamp < posts'[Len(posts')].timestamp]_vars

(* the second row has been written by a Worker while the first, inserted
   before it, is still as the submission left it *)
C22_Witness ==
    /\ Len(posts) = 2
    /\ posts[1] = NewRow("c1", 1)
    /\ posts[2].processed
    /\ posts[2].content = "c1"
    /\ posts[2].timestamp = 2

(* how often identifier i stands in queue q *)
Occurrences(q, i) == Cardinality({k \in 1..Len(q) : q[k] = i})

RECURSIVE Sum(_, _)
Sum(f, S) ==
    IF S = {} THEN 0
    ELSE LET x == CHOOSE y \in S : TRUE
         IN  f[x] + Sum(f, S \ {x})

(* how often identifier i is queued or in flight, over all sessions *)
Copies(i) ==
    Sum([s \in Sessions |-> Occurrences(queue[s], i) + (IF cur[s] = i THEN 1 ELSE 0)],
        Sessions)

(* C23: without an operator re-queue every identifier is queued or in
   flight at most once, and every identifier a Worker pops has a row with
   processed = FALSE: the pop is never a silent drop. *)
C23_QueuedAtMostOnce ==
    /\ [](\A i \in 1..Len(posts) : Copies(i) <= 1)
    /\ [](\A s \in Sessions : \A k \in 1..Len(queue[s]) :
             queue[s][k] \in Unprocessed(posts))
    /\ [][\A s \in Sessions :
             (pc[s] = "loop" /\ Popped(s))
             => /\ pc'[s] = "fetched"
                /\ cur'[s] = Head(queue[s])
                /\ ~posts[cur'[s]].processed]_vars

(* a Worker has fetched, for the second time, an identifier it had put back
   after a rate-limited attempt, while the other post waits in a queue *)
C23_Witness ==
    \E s \in Sessions :
        /\ pc[s] = "fetched"
        /\ cur[s] \in limited
        /\ \E i \in 1..Len(posts) : i # cur[s] /\ Queued(i)

(* the identifier in the hands of the Worker of s goes back on its queue *)
PutBack(s) == queue'[s] = Append(queue[s], cur[s])

(* C24: analyze_emotion_with_ai returns None for the scores exactly when
   its error kind is rate_limit, so the Worker puts back exactly the
   rate-limited attempts and no other. *)
C24_NullScoresIffRateLimit ==
    /\ [](\A o \in Outcomes :
             /\ AnalyzeResponse(o).emotions # None
             /\ AnalyzeResponse(o).error_type # "rate_limit")
    /\ [](\A s \in Sessions :
             pc[s] = "analyzed"
             => (res[s].emotions = None <=> res[s].error_type = "rate_limit"))
    /\ [][\A s \in Sessions :
             (pc[s] = "analyzed" /\ Stepped(s))
             => /\ PutBack(s) <=> res[s].error_type = "rate_limit"
                /\ ~PutBack(s) => queue'[s] = queue[s]]_vars

(* the Worker holds the tuple of a rate-limited attempt after it has stored
   an estimate for another post *)
C24_Witness ==
    \E s \in Sessions :
        /\ pc[s] = "analyzed"
        /\ res[s].emotions = None
        /\ res[s].error_type = "rate_limit"
        /\ \E i \in 1..Len(posts) : posts[i].error_type = "parse_error"

(* C25: whenever wait_time() returns 0, a can_request() made at the same
   instant returns true; a Worker that asks then is admitted. *)
C25_NoWaitMeansAdmitted ==
    /\ [](wait_time(requests) = 0 => CanRequestResult(requests))
    /\ [][\A s \in Sessions :
             (WorkerAsks(s) /\ wait_time(requests) = 0) => pc'[s] = "calling"]_vars

(* the list is full, its oldest admission has just left the window, and a
   Worker is about to ask *)
C25_Witness ==
    /\ Len(requests) = max_requests
    /\ wait_time(requests) = 0
    /\ requests[Len(requests)] < time_window
    /\ client
    /\ \E s \in Sessions : pc[s] = "fetched"

(* no add_post is in progress, and every one that was called returned True *)
AllReturnedTrue ==
    /\ \A s \in Sessions : adding[s].pc = "idle"
    /\ Cardinality(returned) = Sum([s \in Sessions |-> adding[s].n], Sessions)

FileTexts == {DATA_FILE.data[i].text : i \in 1..Len(DATA_FILE.data)}

(* C26: after all add_post calls of all sessions have returned True, the
   file holds every submitted post and no two posts in it have the same
   id. *)
C26_AddPostKeepsEveryPost ==
    AllReturnedTrue
    => /\ returned \subseteq FileTexts
       /\ \A i, j \in 1..Len(DATA_FILE.data) :
             i # j => DATA_FILE.data[i].id # DATA_FILE.data[j].id

(* the add_post of s, whose load_shared_posts had failed, returns True in
   this step *)
SavesAfterFailedLoad(s) ==
    /\ adding[s].pc = "open"
    /\ adding[s].failed
    /\ adding'[s].pc = "idle"

(* C27: an add_post whose load_shared_posts failed does not return True
   with the posts that were stored before gone from the file. *)
C27_FailedLoadKeepsStoredPosts ==
    [][\A s \in Sessions :
          SavesAfterFailedLoad(s)
          => Range(last_saved) \subseteq Range(DATA_FILE'.data)]_vars

=============================================================================
